---- MODULE Spec2Model ----
(***************************************************************************)
(* hyperbloom-trust: the link store and chain resolver of lib/trust.js.    *)
(*                                                                         *)
(* The engine is single threaded: every handler (a public call, a stream   *)
(* event, the completion callback of a storage operation) runs to the end  *)
(* without interleaving, so each handler is one action.  Callbacks handed  *)
(* to process.nextTick are recorded, in the order they were scheduled, in  *)
(* the variable out.                                                       *)
(***************************************************************************)
EXTENDS Integers, Sequences, FiniteSets, TLC

(***************************************************************************)
(* Bounds of the model.                                                    *)
(***************************************************************************)
\* public keys are 0..MaxKey; key 0 is the local identity
MaxKey == 5
\* the clock (Date.now() / 1000) takes the values 0..MaxTime
MaxTime == 1
\* number of addChain calls made on one store
MaxAdds == 2
\* number of close calls made on one engine
MaxCloses == 2
\* number of addChain and close calls together
MaxCalls == 3
\* number of records in the store when the engine is constructed
MaxStored == 2
\* number of getChain calls buffered while the store is loading
MaxQueued == 2
\* constants.MAX_CHAIN_LENGTH: the value is set in the package
\* hyperbloom-constants; the model takes a small one
MAX_CHAIN_LENGTH == 4

\* Infinity, the expiration the traversal starts from (larger than any link's)
Infinity == 1000000

Keys == 0 .. MaxKey
Times == 0 .. MaxTime
\* expirations: every one but the last is reached by the clock
Expirations == 1 .. (MaxTime + 1)

(***************************************************************************)
(* Links.  A raw link is the signed blob: who signed it, the subject key   *)
(* and the expiration.  parseLink decodes subject and expiration only; the *)
(* issuer is supplied by the context (test helper edge(), trust.js:81).    *)
(***************************************************************************)
edge(from, to, expiration) ==
  [signer |-> from, publicKey |-> to, expiration |-> expiration]

parseLink(raw) ==
  [publicKey |-> raw.publicKey, expiration |-> raw.expiration]

\* the Link Codec decodes the blob; a blob that is no link (written here with
\* a subject below every key) makes parseLink fail: it throws
Decodes(raw) == raw.publicKey >= 0

Min(a, b) == IF a <= b THEN a ELSE b

Front(s) == SubSeq(s, 1, Len(s) - 1)
Last(s) == s[Len(s)]

(***************************************************************************)
(* State.                                                                  *)
(***************************************************************************)
VARIABLES
  now,        \* the clock
  graph,      \* this._graph: issuer key -> children in Map insertion order
  lru,        \* this._lru: root key -> [expiration, chain]
  ready,      \* this._ready
  queue,      \* this._queue: root and callback of the buffered getChain calls
  dbUsed,     \* this._dbUsed
  dbQueue,    \* this._dbQueue: number of deferred close closures
  db,         \* the store: raw link (key) -> issuer (value)
  dbOpen,     \* FALSE once db.close was invoked
  stream,     \* records the read stream of _load still has to emit
  loading,    \* the read stream has emitted neither 'end' nor 'error'
  inflight,   \* puts and deletes handed to the store, not yet completed
  closeLog,   \* per db.close invocation: the operations then outstanding
  out,        \* callbacks scheduled by the last handler, in order
  indexed,    \* history: every (issuer, raw link) given to addChild
  added,      \* history: the addChain calls of this engine, in order
  nAdds,      \* addChain calls made on the store
  nCloses     \* close calls made on the engine

vars == <<now, graph, lru, ready, queue, dbUsed, dbQueue, db, dbOpen, stream,
          loading, inflight, closeLog, out, indexed, added, nAdds, nCloses>>

\* number of storage operations whose completion is still awaited
Outstanding(ld, fl) == (IF ld THEN 1 ELSE 0) + Len(fl)

\* this.publicKey, the local identity
Local == 0

(***************************************************************************)
(* The engine as a record, so that each method is an operator from engine  *)
(* to engine.                                                              *)
(***************************************************************************)
Self ==
  [graph |-> graph, lru |-> lru, ready |-> ready, queue |-> queue,
   dbUsed |-> dbUsed, dbQueue |-> dbQueue, dbOpen |-> dbOpen,
   loading |-> loading, inflight |-> inflight, closeLog |-> closeLog,
   indexed |-> indexed, out |-> <<>>, thrown |-> FALSE]

\* the children kept in an array: every child is pushed
addChildPushed(children, child) == Append(children, child)

\* TrustNode.prototype.addChild: Map.set keeps the position of an existing key
addChild(children, child) ==
  IF \E i \in 1 .. Len(children) :
       children[i].link.publicKey = child.link.publicKey
  THEN [i \in 1 .. Len(children) |->
          IF children[i].link.publicKey = child.link.publicKey
          THEN child ELSE children[i]]
  ELSE Append(children, child)

\* TrustNode.prototype.removeChild
removeChild(children, key) ==
  SelectSeq(children, LAMBDA c : c.link.publicKey # key)

\* Trust.prototype._useDB
_useDB(e) == [e EXCEPT !.dbUsed = @ + 1]

\* this.db.close(cb): the handle is closed; the log keeps how many storage
\* operations were awaiting completion at that moment, and whether the call
\* came from a deferred closure
dbClose(e, deferred) ==
  [e EXCEPT !.dbOpen = FALSE,
            !.closeLog = Append(@,
               [outstanding |-> Outstanding(e.loading, e.inflight),
                deferred |-> deferred])]

\* close without the test of _dbUsed
closeAtOnce(e, deferred) == dbClose(e, deferred)

\* Trust.prototype.close
close(e, deferred) ==
  IF e.dbUsed # 0
  THEN [e EXCEPT !.dbQueue = @ + 1]
  ELSE dbClose(e, deferred)

\* the loop of lines 239-240 over the n closures () => this.close(cb)
RECURSIVE runDbQueue(_, _)
runDbQueue(e, n) == IF n = 0 THEN e ELSE runDbQueue(close(e, TRUE), n - 1)

\* Trust.prototype._freeDB: at zero the deferred closures run
_freeDB(e) ==
  LET e1 == [e EXCEPT !.dbUsed = @ - 1] IN
  IF e1.dbUsed # 0
  THEN e1
  ELSE runDbQueue([e1 EXCEPT !.dbQueue = 0], e1.dbQueue)

\* Trust.prototype._addMemLink
_addMemLink(e, parent, raw, link) ==
  LET node == IF parent \in DOMAIN e.graph THEN e.graph[parent] ELSE <<>>
      child == [link |-> link, raw |-> raw]
  IN  [e EXCEPT !.graph = (parent :> addChild(node, child)) @@ e.graph,
                !.indexed = @ \cup {[parent |-> parent, raw |-> raw]}]

\* Trust.prototype._addLink, at clock value t
_addLink(e, parent, raw, link, t) ==
  IF link.expiration <= t
  THEN e
  ELSE LET e1 == _useDB(e)
           e2 == [e1 EXCEPT !.inflight =
                    Append(@, [op |-> "put", key |-> raw, value |-> parent])]
       IN  _addMemLink(e2, parent, raw, link)

\* the forEach of Trust.prototype.addChain; nothing catches what parseLink
\* throws, so the exception ends the loop and leaves addChain
RECURSIVE addLinks(_, _, _, _)
addLinks(e, prev, raw, t) ==
  IF raw = <<>>
  THEN e
  ELSE LET rawLink == Head(raw)
           link == parseLink(rawLink)
       IN  IF ~Decodes(rawLink)
           THEN [e EXCEPT !.thrown = TRUE]
           ELSE addLinks(_addLink(e, prev, rawLink, link, t), link.publicKey,
                         Tail(raw), t)

\* Trust.prototype.addChain
addChain(e, root, raw, t) ==
  IF Len(raw) = 0
  THEN e
  ELSE LET e1 == addLinks(e, root, raw, t)
       IN  IF e1.thrown
           THEN e1
           ELSE [e1 EXCEPT !.out =
                   Append(@, [op |-> "addChain", root |-> root])]

\* process.nextTick(callback, err, chain) of getChain; with the answer the
\* record keeps what the call read and did: the clock value, whether the
\* cache answered, whether a cache entry was evicted, the edges pruned
respond(e, root, callback, t, err, chain, hit, evicted, pruned) ==
  [e EXCEPT !.out = Append(@,
     [op |-> "getChain", root |-> root, callback |-> callback, now |-> t,
      err |-> err,
      chain |-> chain, hit |-> hit, evicted |-> evicted, pruned |-> pruned])]

\* this._lru.set / this._lru.remove (LRU_SIZE exceeds the number of keys of
\* the model, so that no entry is ever pushed out by another)
lruSet(c, key, value) == (key :> value) @@ c
lruRemove(c, key) == [k \in DOMAIN c \ {key} |-> c[k]]

\* lines 127-134: the expired child leaves the node and a delete is issued
prune(e, parent, value) ==
  LET e1 == [e EXCEPT !.graph[parent] =
               removeChild(@, value.link.publicKey)]
      e2 == _useDB(e1)
  IN  [e2 EXCEPT !.inflight =
         Append(@, [op |-> "del", key |-> value.raw, value |-> parent])]

\* line 126: the link has expired
expired(link, t) == link.expiration <= t

\* line 138 without the chain so far
extendFromHere(chain, raw) == <<raw>>

\* line 138: the chain so far with this link
extend(chain, raw) == Append(chain, raw)

\* lines 147-155 with the length test one link too late
deadEndLate(e, trusteeKey, visited, chain) ==
  \/ trusteeKey \notin DOMAIN e.graph
  \/ trusteeKey \in visited
  \/ Len(chain) > MAX_CHAIN_LENGTH

\* lines 147-155: the child is not followed
deadEnd(e, trusteeKey, visited, chain) ==
  \/ trusteeKey \notin DOMAIN e.graph
  \/ trusteeKey \in visited
  \/ Len(chain) >= MAX_CHAIN_LENGTH

RECURSIVE walk(_, _, _, _, _, _, _, _), scan(_, _, _, _, _, _, _, _, _, _)

\* the while loop of lines 120-159; the queue is used as a stack (pop)
walk(e, root, callback, t, stack, visited, evicted, pruned) ==
  IF stack = <<>>
  THEN respond(e, root, callback, t, TRUE, <<>>, FALSE, evicted, pruned)
  ELSE LET item == Last(stack) IN
       scan(e, root, callback, t, item, e.graph[item.node], Front(stack),
            visited \cup {item.node}, evicted, pruned)

\* the for loop of lines 124-158 over the entries ents still ahead
scan(e, root, callback, t, item, ents, stack, visited, evicted, pruned) ==
  IF ents = <<>>
  THEN walk(e, root, callback, t, stack, visited, evicted, pruned)
  ELSE
    LET value == Head(ents)
        trusteeKey == value.link.publicKey
    IN
    IF expired(value.link, t)
    THEN scan(prune(e, item.node, value), root, callback, t, item,
              Tail(ents), stack, visited, evicted,
              Append(pruned, [parent |-> item.node, raw |-> value.raw]))
    ELSE
      LET chain == extend(item.chain, value.raw)
          expiration == Min(item.expiration, value.link.expiration)
      IN
      IF Local = value.link.publicKey
      THEN respond(
             [e EXCEPT !.lru = lruSet(@, root,
                [expiration |-> expiration, chain |-> chain])],
             root, callback, t, FALSE, chain, FALSE, evicted, pruned)
      ELSE IF deadEnd(e, trusteeKey, visited, chain)
      THEN scan(e, root, callback, t, item, Tail(ents), stack, visited,
                evicted, pruned)
      ELSE scan(e, root, callback, t, item, Tail(ents),
                Append(stack, [node |-> trusteeKey,
                               expiration |-> expiration, chain |-> chain]),
                visited, evicted, pruned)

\* line 107 with >= for >
cacheFreshAtExpiry(cached, t) == cached.expiration >= t

\* lines 105-111: the cached answer is used while it has not expired
cacheFresh(cached, t) == cached.expiration > t

\* getChain with the test of _ready before the test for the local key
getChainReadyFirst(e, root, callback, t) ==
  IF ~e.ready
  THEN [e EXCEPT !.queue = Append(@, [root |-> root, callback |-> callback])]
  ELSE IF root = Local \/ root \notin DOMAIN e.graph
  THEN respond(e, root, callback, t, root # Local, <<>>, FALSE, FALSE, <<>>)
  ELSE IF root \in DOMAIN e.lru /\ cacheFresh(e.lru[root], t)
  THEN respond(e, root, callback, t, FALSE, e.lru[root].chain, TRUE, FALSE,
               <<>>)
  ELSE
    LET evicted == root \in DOMAIN e.lru
        e1 == IF evicted THEN [e EXCEPT !.lru = lruRemove(@, root)] ELSE e
    IN  walk(e1, root, callback, t,
             <<[node |-> root, expiration |-> Infinity, chain |-> <<>>]>>,
             {}, evicted, <<>>)

\* Trust.prototype.getChain, at clock value t
getChain(e, root, callback, t) ==
  IF root = Local
  THEN respond(e, root, callback, t, FALSE, <<>>, FALSE, FALSE, <<>>)
  ELSE IF ~e.ready
  THEN [e EXCEPT !.queue = Append(@, [root |-> root, callback |-> callback])]
  ELSE IF root \notin DOMAIN e.graph
  THEN respond(e, root, callback, t, TRUE, <<>>, FALSE, FALSE, <<>>)
  ELSE IF root \in DOMAIN e.lru /\ cacheFresh(e.lru[root], t)
  THEN respond(e, root, callback, t, FALSE, e.lru[root].chain, TRUE, FALSE,
               <<>>)
  ELSE
    LET evicted == root \in DOMAIN e.lru
        e1 == IF evicted THEN [e EXCEPT !.lru = lruRemove(@, root)] ELSE e
    IN  walk(e1, root, callback, t,
             <<[node |-> root, expiration |-> Infinity, chain |-> <<>>]>>,
             {}, evicted, <<>>)

\* the replay loop run from the last closure to the first
RECURSIVE replayBackwards(_, _, _)
replayBackwards(e, q, t) ==
  IF q = <<>>
  THEN e
  ELSE replayBackwards(getChain(e, Last(q).root, Last(q).callback, t),
                       Front(q), t)

\* the replay loop of the 'end' handler, lines 181-182
RECURSIVE replay(_, _, _)
replay(e, q, t) ==
  IF q = <<>>
  THEN e
  ELSE replay(getChain(e, Head(q).root, Head(q).callback, t), Tail(q), t)

\* 'data' handler of _load, lines 171-175 (no expiration check here)
loadData(e, record) ==
  _addMemLink(e, record.value, record.key, parseLink(record.key))

\* 'end' handler of _load, lines 175-183
loadEnd(e, t) ==
  LET e1 == _freeDB([e EXCEPT !.loading = FALSE])
      q == e1.queue
      e2 == [e1 EXCEPT !.ready = TRUE, !.queue = <<>>]
  IN  replay(e2, q, t)

\* 'error' handler of _load, lines 183-187
loadError(e) == _freeDB([e EXCEPT !.loading = FALSE])

\* completion callback of a put or a delete, lines 130-134 and 201-205
dbDone(e) == _freeDB([e EXCEPT !.inflight = Tail(@)])

(***************************************************************************)
(* Inputs.  A client holds links issued with the test helper edge().  Who  *)
(* has issued a link to whom is fixed: every key trusts the key below it   *)
(* and the local key 0, the top key also trusts the key two below it, and  *)
(* one key trusts back the key above it, which closes a cycle.  So chains  *)
(* of every length lead from the top key to the local key.  The links of   *)
(* one chain follow one another from the root, end at the local key and    *)
(* carry one expiration, as in the tests; a chain may be one link longer   *)
(* than MAX_CHAIN_LENGTH, since addChain does not look at the length.      *)
(***************************************************************************)
\* the key whose chains are added
Top == MaxKey

Issues(from) ==
  IF from = Local
  THEN {}
  ELSE {from - 1, Local}
         \cup (IF from = Top /\ from >= 2 THEN {from - 2} ELSE {})
         \cup (IF from = Top - 2 THEN {from + 1} ELSE {})

\* the subject sequences of length n that lead from issuer `from` to Local
RECURSIVE Paths(_, _)
Paths(from, n) ==
  IF n = 0
  THEN IF from = Local THEN {<<>>} ELSE {}
  ELSE UNION {{<<to>> \o p : p \in Paths(to, n - 1)} : to \in Issues(from)}

\* the chain of raw links along the subjects p, issued from root
RECURSIVE Links(_, _, _)
Links(root, p, expiration) ==
  IF p = <<>>
  THEN <<>>
  ELSE <<edge(root, Head(p), expiration)>>
         \o Links(Head(p), Tail(p), expiration)

InputChains(root) ==
  {Links(root, p, x) :
     p \in UNION {Paths(root, n) : n \in 0 .. (MAX_CHAIN_LENGTH + 1)},
     x \in Expirations}

\* the roots clients add chains for and ask chains of
AddRoots == {Top}
QueryRoots == {Local, Top}

\* the order of the keys LINK_PREFIX + raw.toString('hex') in the store
keyLess(a, b) ==
  \/ a.publicKey < b.publicKey
  \/ a.publicKey = b.publicKey /\ a.expiration < b.expiration
  \/ a.publicKey = b.publicKey /\ a.expiration = b.expiration
       /\ a.signer < b.signer

\* the records db.put wrote for a chain (trust.js:199-200), in key order
Records(chain) ==
  SortSeq([i \in 1 .. Len(chain) |->
             [key |-> chain[i], value |-> chain[i].signer]],
          LAMBDA r1, r2 : keyLess(r1.key, r2.key))

ShortChains(root) == {x \in InputChains(root) : Len(x) <= MaxStored}

\* a blob that is not a link, where the key `from` would have signed one
garbage(from) == [signer |-> from, publicKey |-> -1, expiration |-> 0]

\* no links at all, and the short chains with one link replaced by garbage
OddChains(root) ==
  {<<>>} \cup UNION {{[c EXCEPT ![i] = garbage(c[i].signer)] :
                         i \in 1 .. Len(c)} : c \in ShortChains(root)}

AnyChains(root) == ShortChains(root) \cup OddChains(root)

\* what a store may hold when the engine is constructed: nothing, or the
\* records of one chain of at most MaxStored links added earlier
Stored == {<<>>} \cup {Records(c) : c \in ShortChains(Top)}

Set(e) ==
  /\ graph' = e.graph
  /\ lru' = e.lru
  /\ ready' = e.ready
  /\ queue' = e.queue
  /\ dbUsed' = e.dbUsed
  /\ dbQueue' = e.dbQueue
  /\ dbOpen' = e.dbOpen
  /\ loading' = e.loading
  /\ inflight' = e.inflight
  /\ closeLog' = e.closeLog
  /\ indexed' = e.indexed
  /\ out' = e.out

(***************************************************************************)
(* The state after new Trust(options): _load() has started the read stream *)
(* (trust.js:42-60).                                                       *)
(***************************************************************************)
Init ==
  /\ now = 0
  /\ graph = <<>>
  /\ lru = <<>>
  /\ ready = FALSE
  /\ queue = <<>>
  /\ dbUsed = 1
  /\ dbQueue = 0
  /\ stream \in Stored
  /\ db = [r \in {stream[i].key : i \in 1 .. Len(stream)} |->
             (CHOOSE rec \in {stream[i] : i \in 1 .. Len(stream)} :
                rec.key = r).value]
  /\ dbOpen = TRUE
  /\ loading = TRUE
  /\ inflight = <<>>
  /\ closeLog = <<>>
  /\ out = <<>>
  /\ indexed = {}
  /\ added = <<>>
  /\ nAdds = IF stream = <<>> THEN 0 ELSE 1
  /\ nCloses = 0

\* close was called: it is the last call a client makes (README, Usage)
closing == nCloses > 0

\* time passes
Tick ==
  /\ now < MaxTime
  /\ now' = now + 1
  /\ out' = <<>>
  /\ UNCHANGED <<graph, lru, ready, queue, dbUsed, dbQueue, db, dbOpen,
                 stream, loading, inflight, closeLog, indexed, added, nAdds,
                 nCloses>>

\* a client calls addChain(root, raw, callback)
AddChainOf(root, raw) ==
  /\ ~closing
  /\ Set(addChain(Self, root, raw, now))
  /\ added' = Append(added, [root |-> root, chain |-> raw])
  /\ nAdds' = nAdds + 1
  /\ UNCHANGED <<now, db, stream, nCloses>>

\* ... with any of the chains
AddChain ==
  /\ nAdds < MaxAdds
  /\ \E root \in AddRoots : \E raw \in InputChains(root) :
       AddChainOf(root, raw)

\* ... with a chain of at most MaxStored links, one call more
AddShortChain ==
  /\ nAdds <= MaxAdds
  /\ \E root \in AddRoots : \E raw \in ShortChains(root) :
       AddChainOf(root, raw)

\* ... with a short chain, an empty one or one that holds garbage
AddAnyChain ==
  /\ nAdds < MaxAdds
  /\ \E root \in AddRoots : \E raw \in AnyChains(root) :
       AddChainOf(root, raw)

\* the callback of a getChain call: the calls buffered during the load are
\* told apart by the order in which they arrived
nextCallback(root) ==
  IF ready \/ root = Local THEN 0 ELSE Len(queue) + 1

\* a client calls getChain(root, callback)
GetChain ==
  /\ ~closing
  /\ \E root \in QueryRoots :
       /\ (~ready /\ root # Local) => Len(queue) < MaxQueued
       /\ Set(getChain(Self, root, nextCallback(root), now))
  /\ UNCHANGED <<now, db, stream, added, nAdds, nCloses>>

\* a client calls close(cb)
Close ==
  /\ nCloses < MaxCloses
  /\ nAdds + nCloses < MaxCalls
  /\ Set(close(Self, FALSE))
  /\ nCloses' = nCloses + 1
  /\ UNCHANGED <<now, db, stream, added, nAdds>>

\* the read stream emits 'data'
LoadData ==
  /\ loading
  /\ stream # <<>>
  /\ Set(loadData(Self, Head(stream)))
  /\ stream' = Tail(stream)
  /\ UNCHANGED <<now, db, added, nAdds, nCloses>>

\* the read stream emits 'end'
LoadEnd ==
  /\ loading
  /\ stream = <<>>
  /\ Set(loadEnd(Self, now))
  /\ UNCHANGED <<now, db, stream, added, nAdds, nCloses>>

\* the read stream emits 'error'
LoadError ==
  /\ loading
  /\ Set(loadError(Self))
  /\ stream' = <<>>
  /\ UNCHANGED <<now, db, added, nAdds, nCloses>>

\* the store completes its oldest put or delete and calls back
DbDone ==
  /\ inflight # <<>>
  /\ LET o == Head(inflight) IN
       db' = IF ~dbOpen THEN db
             ELSE IF o.op = "put" THEN (o.key :> o.value) @@ db
             ELSE [k \in DOMAIN db \ {o.key} |-> db[k]]
  /\ Set(dbDone(Self))
  /\ UNCHANGED <<now, stream, added, nAdds, nCloses>>

Next ==
  \/ Tick
  \/ AddChain
  \/ GetChain
  \/ Close
  \/ LoadData
  \/ LoadEnd
  \/ LoadError
  \/ DbDone

Spec == Init /\ [][Next]_vars

\* the engine with one addChain call more, of short chains
NextShort ==
  \/ Tick
  \/ AddShortChain
  \/ GetChain
  \/ Close
  \/ LoadData
  \/ LoadEnd
  \/ LoadError
  \/ DbDone

SpecShort == Init /\ [][NextShort]_vars

\* the engine with clients that also pass empty chains and garbage
NextAny ==
  \/ Tick
  \/ AddAnyChain
  \/ GetChain
  \/ Close
  \/ LoadData
  \/ LoadEnd
  \/ LoadError
  \/ DbDone

SpecAny == Init /\ [][NextAny]_vars

(***************************************************************************)
(* Notions the properties are stated with.                                 *)
(***************************************************************************)
\* the answers getChain gave in the last handler
Answers == {out[i] : i \in {j \in 1 .. Len(out) : out[j].op = "getChain"}}

\* the issuer of the i-th link of a chain for root
IssuerAt(root, chain, i) ==
  IF i = 1 THEN root ELSE parseLink(chain[i - 1]).publicKey

\* every link of the chain expires after t
Unexpired(chain, t) ==
  \A i \in 1 .. Len(chain) : parseLink(chain[i]).expiration > t

\* the chain ends at the local key
EndsAtLocal(chain) ==
  chain # <<>> /\ parseLink(Last(chain)).publicKey = Local

\* a valid chain: it leads to the local key, no link has expired at t, and
\* it is not longer than MAX_CHAIN_LENGTH
ValidChain(chain, t) ==
  EndsAtLocal(chain) /\ Unexpired(chain, t) /\ Len(chain) <= MAX_CHAIN_LENGTH

\* every link of the chain was indexed under the issuer the chain gives it
IndexedPath(root, chain) ==
  \A i \in 1 .. Len(chain) :
    [parent |-> IssuerAt(root, chain, i), raw |-> chain[i]] \in indexed

\* the edges of the in-memory index
Edges ==
  UNION {{[parent |-> k, raw |-> graph[k][i].raw] :
            i \in 1 .. Len(graph[k])} : k \in DOMAIN graph}

(***************************************************************************)
(* C1.  A valid chain that was added with addChain(root, C) is found: a    *)
(* later getChain(root), made while the links of C are unexpired, succeeds *)
(* and returns a valid chain from root to the local key, whatever other    *)
(* chains were added.                                                      *)
(***************************************************************************)
C1_AddedChainIsFound ==
  \A r \in Answers : \A i \in 1 .. Len(added) :
    (r.root # Local /\ added[i].root = r.root
       /\ ValidChain(added[i].chain, r.now))
    => /\ ~r.err
       /\ ValidChain(r.chain, r.now)
       /\ IndexedPath(r.root, r.chain)

(***************************************************************************)
(* C2.  A chain returned for a root other than the local key is a          *)
(* connected path: it is not empty, each link was indexed under its issuer *)
(* (the root for the first link, the subject of the link before for the    *)
(* others) and the last subject is the local key; from the cache or not.   *)
(***************************************************************************)
C2_ReturnedChainIsConnected ==
  \A r \in Answers :
    (r.root # Local /\ ~r.err)
    => EndsAtLocal(r.chain) /\ IndexedPath(r.root, r.chain)

\* a chain of two or more links was served from the cache
C2_Witness ==
  \E r \in Answers : r.root # Local /\ ~r.err /\ r.hit /\ Len(r.chain) >= 2

(***************************************************************************)
(* C3.  Every link of a returned chain expires after the time the getChain *)
(* call read, also when the chain comes from the cache.                    *)
(***************************************************************************)
C3_ReturnedLinksUnexpired ==
  \A r \in Answers : ~r.err => (r.now = now /\ Unexpired(r.chain, r.now))

\* the cache answered after time has passed since the chain was added
C3_Witness ==
  \E r \in Answers : ~r.err /\ r.hit /\ r.now > 0 /\ r.chain # <<>>

(***************************************************************************)
(* C4.  A returned chain has at most MAX_CHAIN_LENGTH links, whatever the  *)
(* index contains.                                                         *)
(***************************************************************************)
C4_ReturnedChainBounded ==
  \A r \in Answers : Len(r.chain) <= MAX_CHAIN_LENGTH

\* a chain of the greatest length is returned from an index that also holds
\* a longer path from the root to the local key
C4_Witness ==
  /\ \E r \in Answers : ~r.err /\ Len(r.chain) = MAX_CHAIN_LENGTH
  /\ \E i \in 1 .. Len(added) :
       /\ Len(added[i].chain) > MAX_CHAIN_LENGTH
       /\ \A j \in 1 .. Len(added[i].chain) :
            [parent |-> IssuerAt(added[i].root, added[i].chain, j),
             raw |-> added[i].chain[j]] \in Edges

\* the edges a chain for root is indexed as
EdgesOf(root, chain) ==
  {[parent |-> IssuerAt(root, chain, i), raw |-> chain[i]] :
     i \in 1 .. Len(chain)}

\* the edges of the index when the call that answered r began
EdgesBefore(r) == Edges \cup {r.pruned[i] : i \in 1 .. Len(r.pruned)}

(***************************************************************************)
(* C5.  When a longer and a strictly shorter valid chain from the same     *)
(* root to the local key have been added, in either order, getChain(root)  *)
(* returns a chain no longer than the shorter one.                         *)
(***************************************************************************)
C5_ShorterChainPreferred ==
  \A r \in Answers : \A i, j \in 1 .. Len(added) :
    (/\ r.root # Local
     /\ added[i].root = r.root
     /\ added[j].root = r.root
     /\ ValidChain(added[i].chain, r.now)
     /\ ValidChain(added[j].chain, r.now)
     /\ Len(added[i].chain) < Len(added[j].chain))
    => (~r.err /\ Len(r.chain) <= Len(added[i].chain))

(***************************************************************************)
(* C6.  After addChain(R, [R->A, A->L]) and then addChain(R, [R->L]) with  *)
(* an unexpired direct link, getChain(R) returns [R->L], also when a       *)
(* getChain(R) between the two calls returned [R->A, A->L].                *)
(***************************************************************************)
C6_DirectLinkAfterQuery ==
  \A r \in Answers :
    (/\ r.root # Local
     /\ Len(added) = 2
     /\ added[1].root = r.root
     /\ added[2].root = r.root
     /\ Len(added[1].chain) = 2
     /\ EndsAtLocal(added[1].chain)
     /\ Len(added[2].chain) = 1
     /\ ValidChain(added[2].chain, r.now))
    => (~r.err /\ r.chain = added[2].chain)

(***************************************************************************)
(* C8.  When the chain added for a root is all the index holds and all its *)
(* links have expired, getChain(root) answers with the error and after the *)
(* call none of the expired edges of the chain is in the index.            *)
(***************************************************************************)
C8_ExpiredChainPruned ==
  \A r \in Answers : \A i \in 1 .. Len(added) :
    (/\ r.root # Local
     /\ added[i].root = r.root
     /\ EndsAtLocal(added[i].chain)
     /\ \A j \in 1 .. Len(added[i].chain) :
          parseLink(added[i].chain[j]).expiration <= r.now
     /\ EdgesBefore(r) = EdgesOf(r.root, added[i].chain))
    => (r.err /\ EdgesOf(r.root, added[i].chain) \cap Edges = {})

(***************************************************************************)
(* C9.  db.close is invoked only when no storage operation of the engine   *)
(* awaits its completion; a close() called while operations are            *)
(* outstanding stays deferred no longer than the last of them, and no      *)
(* close() is lost.                                                        *)
(***************************************************************************)
C9_CloseWaitsForStorage ==
  /\ \A i \in 1 .. Len(closeLog) : closeLog[i].outstanding = 0
  /\ dbQueue > 0 => Outstanding(loading, inflight) > 0
  /\ nCloses = dbQueue + Len(closeLog)

\* a close() that was deferred has reached db.close after the puts of an
\* addChain call have landed
C9_Witness ==
  /\ \E i \in 1 .. Len(closeLog) : closeLog[i].deferred
  /\ added # <<>>
  /\ \A i \in 1 .. Len(added[1].chain) : added[1].chain[i] \in DOMAIN db

\* no key occurs twice on the path of the chain
Simple(root, chain) ==
  \A i, j \in 1 .. Len(chain) :
    /\ parseLink(chain[i]).publicKey # root
    /\ i # j => parseLink(chain[i]).publicKey # parseLink(chain[j]).publicKey

\* the chains whose edges the index held when the call that answered r began
Held(r) ==
  {c \in InputChains(r.root) : EdgesOf(r.root, c) \subseteq EdgesBefore(r)}

(***************************************************************************)
(* C7.  If the index holds two edge-disjoint chains from root to the local *)
(* key, P expiring at t1 and Q expiring at t2 > t1, a getChain(root) at a  *)
(* time now with t1 <= now < t2 succeeds and returns Q, whatever was       *)
(* cached before.                                                          *)
(***************************************************************************)
C7_LaterExpiringChainReturned ==
  \A r \in Answers : \A P, Q \in Held(r) :
    (/\ r.root # Local
     /\ EndsAtLocal(P) /\ Simple(r.root, P)
     /\ ValidChain(Q, r.now) /\ Simple(r.root, Q)
     /\ \A i \in 1 .. Len(P) : parseLink(P[i]).expiration <= r.now
     /\ EdgesOf(r.root, P) \cap EdgesOf(r.root, Q) = {}
     /\ EdgesBefore(r) = EdgesOf(r.root, P) \cup EdgesOf(r.root, Q))
    => (~r.err /\ r.chain = Q)

(***************************************************************************)
(* C10.  A getChain call for another root than the local key that is made  *)
(* before the load has finished is buffered; no such call is answered      *)
(* before the stream has emitted every record and 'end'; at 'end' the      *)
(* buffered calls are answered once each, in the order they arrived, and   *)
(* nothing is buffered afterwards.                                         *)
(***************************************************************************)
C10_QueuedUntilLoaded ==
  [][/\ \A i \in 1 .. Len(out') :
          (out'[i].op = "getChain" /\ out'[i].root # Local)
          => (ready' /\ ~loading' /\ stream' = <<>>)
     /\ (~ready /\ ~ready')
        => \/ queue' = queue
           \/ /\ Len(queue') = Len(queue) + 1
              /\ Front(queue') = queue
              /\ Last(queue').callback = Len(queue')
              /\ out' = <<>>
              /\ graph' = graph
              /\ lru' = lru
     /\ (~ready /\ ready')
        => /\ stream = <<>>
           /\ queue' = <<>>
           /\ Len(out') = Len(queue)
           /\ \A i \in 1 .. Len(queue) :
                /\ out'[i].op = "getChain"
                /\ out'[i].root = queue[i].root
                /\ out'[i].callback = queue[i].callback
     /\ ready => (ready' /\ queue' = <<>>)]_vars

\* two buffered calls were answered in order from the rehydrated records
C10_Witness ==
  /\ ready
  /\ added = <<>>
  /\ Len(out) = 2
  /\ out[1].callback = 1 /\ ~out[1].err /\ Len(out[1].chain) = 2
  /\ out[2].callback = 2 /\ out[2].hit

\* the completion callbacks of addChain among the scheduled callbacks o
Completions(o) == {i \in 1 .. Len(o) : o[i].op = "addChain"}

\* the links of the chain that decode and have not expired at t, as edges
LiveEdgesOf(root, chain, t) ==
  {[parent |-> IssuerAt(root, chain, i), raw |-> chain[i]] :
     i \in {j \in 1 .. Len(chain) :
              Decodes(chain[j]) /\ parseLink(chain[j]).expiration > t}}

(***************************************************************************)
(* C11.  Every addChain(root, links, callback) call, the one with no links *)
(* included, schedules its callback exactly once, and when it does the     *)
(* index holds every link of the call (the stale ones are dropped).        *)
(***************************************************************************)
C11_AddChainCompletesOnce ==
  [][(added' # added
        /\ \A i \in 1 .. Len(Last(added').chain) :
             Decodes(Last(added').chain[i]))
     => /\ Cardinality(Completions(out')) = 1
        /\ LiveEdgesOf(Last(added').root, Last(added').chain, now)
             \subseteq Edges']_vars

\* what getChain(root) would answer in this state at time t
AnswerOf(e, root, t) == getChain(e, root, 0, t).out

(***************************************************************************)
(* C12.  addChain with a chain whose links are all in the index already,   *)
(* with the same bytes, changes neither the index (its edges, their order, *)
(* its size) nor the cache, and every getChain made afterwards, now or     *)
(* later, answers as it would have answered without that call.             *)
(***************************************************************************)
C12_ReAddIsIdempotent ==
  [][(added' # added
        /\ Last(added').chain # <<>>
        /\ EdgesOf(Last(added').root, Last(added').chain) \subseteq Edges)
     => /\ graph' = graph
        /\ lru' = lru
        /\ Edges' = Edges
        /\ \A root \in QueryRoots : \A t \in now .. MaxTime :
             AnswerOf(Self', root, t) = AnswerOf(Self, root, t)]_vars

\* a chain of two links was added, resolved and cached, and added again
C12_Witness ==
  /\ Len(added) = 2
  /\ added[1] = added[2]
  /\ Len(added[1].chain) = 2
  /\ Completions(out) # {}
  /\ EdgesOf(added[1].root, added[1].chain) \subseteq Edges
  /\ added[1].root \in DOMAIN lru

(***************************************************************************)
(* C13.  getChain(localPublicKey) answers at once with the empty chain and *)
(* no error in every state: while the store is loading, after a load that  *)
(* failed, after close, whatever the index and the cache hold; and it      *)
(* changes nothing in the engine.                                          *)
(***************************************************************************)
C13_LocalChainIsEmpty ==
  /\ \A r \in Answers : r.root = Local => (~r.err /\ r.chain = <<>>)
  /\ LET e == getChain(Self, Local, 0, now) IN
       /\ Len(e.out) = 1
       /\ ~e.out[1].err
       /\ e.out[1].chain = <<>>
       /\ [e EXCEPT !.out = <<>>] = Self

\* the local chain was asked for after the load had failed, with a call for
\* another root still buffered
C13_Witness ==
  /\ \E r \in Answers : r.root = Local
  /\ ~ready
  /\ ~loading
  /\ queue # <<>>

(***************************************************************************)
(* C14.  close() is idempotent: however many times close() is called, and  *)
(* whether an earlier call is still deferred or was performed, the handle  *)
(* of the store is closed at most once.                                    *)
(***************************************************************************)
C14_StoreClosedOnce == Len(closeLog) <= 1

\* the raw link the index g holds for the pair (issuer, subject)
StoredLink(g, issuer, subject) ==
  LET i == CHOOSE j \in 1 .. Len(g[issuer]) :
             g[issuer][j].link.publicKey = subject
  IN  g[issuer][i].raw

\* the index g holds an edge for the pair (issuer, subject)
HasEdge(g, issuer, subject) ==
  /\ issuer \in DOMAIN g
  /\ \E j \in 1 .. Len(g[issuer]) : g[issuer][j].link.publicKey = subject

(***************************************************************************)
(* C15.  When addChain brings an unexpired link for a pair (issuer,        *)
(* subject) that has an edge in the index, the edge afterwards is the new  *)
(* link if its expiration is strictly greater than the stored one's and    *)
(* the stored link otherwise.                                              *)
(***************************************************************************)
C15_LaterExpirationWins ==
  [][added' # added
     => LET root == Last(added').root
            chain == Last(added').chain
        IN  \A i \in 1 .. Len(chain) :
              LET issuer == IssuerAt(root, chain, i)
                  link == parseLink(chain[i])
              IN  (/\ \A j \in 1 .. i : Decodes(chain[j])
                   /\ link.expiration > now
                   /\ HasEdge(graph, issuer, link.publicKey))
                  => /\ HasEdge(graph', issuer, link.publicKey)
                     /\ StoredLink(graph', issuer, link.publicKey) =
                          LET old == StoredLink(graph, issuer, link.publicKey)
                          IN  IF link.expiration > parseLink(old).expiration
                              THEN chain[i] ELSE old]_vars

\* the index g holds a path of at most n edges, none expired at t, from key k
\* to the local key
RECURSIVE HasPath(_, _, _, _)
HasPath(g, k, n, t) ==
  /\ n > 0
  /\ k \in DOMAIN g
  /\ \E i \in 1 .. Len(g[k]) :
       /\ g[k][i].link.expiration > t
       /\ \/ g[k][i].link.publicKey = Local
          \/ HasPath(g, g[k][i].link.publicKey, n - 1, t)

(***************************************************************************)
(* C16.  getChain(root) answers with "No trust path available" only when   *)
(* the index holds no path of at most MAX_CHAIN_LENGTH unexpired edges     *)
(* from root to the local key.                                             *)
(***************************************************************************)
C16_NoPathOnlyWhenNone ==
  \A r \in Answers :
    (r.root # Local /\ r.err)
    => ~HasPath(graph, r.root, MAX_CHAIN_LENGTH, r.now)

\* the positions of the chain whose blob does not decode
Undecodable(chain) == {i \in 1 .. Len(chain) : ~Decodes(chain[i])}

(***************************************************************************)
(* C17.  When one link of the chain given to addChain fails to decode,     *)
(* neither the index nor the store (nor a pending put) gains an entry for  *)
(* it, the links before it are indexed as usual, and addChain still        *)
(* schedules its completion callback.                                      *)
(***************************************************************************)
C17_MalformedLinkDropped ==
  [][(added' # added /\ Cardinality(Undecodable(Last(added').chain)) = 1)
     => LET root == Last(added').root
            chain == Last(added').chain
            bad == CHOOSE i \in 1 .. Len(chain) : ~Decodes(chain[i])
        IN  /\ \A x \in Edges' : Decodes(x.raw)
            /\ \A i \in 1 .. Len(inflight') : Decodes(inflight'[i].key)
            /\ LiveEdgesOf(root, SubSeq(chain, 1, bad - 1), now)
                 \subseteq Edges'
            /\ Cardinality(Completions(out')) = 1]_vars

\* the link records of the store d, in the key order of createReadStream
RECURSIVE StreamOf(_)
StreamOf(d) ==
  IF DOMAIN d = {}
  THEN <<>>
  ELSE LET k == CHOOSE x \in DOMAIN d :
                  \A y \in DOMAIN d \ {x} : keyLess(x, y)
       IN  <<[key |-> k, value |-> d[k]]>>
             \o StreamOf([y \in DOMAIN d \ {k} |-> d[y]])

\* the 'data' handler run over the records s
RECURSIVE loadAll(_, _)
loadAll(e, s) ==
  IF s = <<>> THEN e ELSE loadAll(loadData(e, Head(s)), Tail(s))

\* the edges of the index a new engine builds from the store d
EdgesLoadedFrom(d) ==
  LET g == loadAll([Self EXCEPT !.graph = <<>>], StreamOf(d)).graph
  IN  UNION {{[parent |-> k, raw |-> g[k][i].raw] : i \in 1 .. Len(g[k])} :
               k \in DOMAIN g}

(***************************************************************************)
(* C18.  When the load has finished, the store is open and no put or       *)
(* delete is in flight, the store holds one link record for each edge of   *)
(* the index and no other, and a new engine opened on the store builds     *)
(* the same edges.                                                         *)
(***************************************************************************)
C18_StoreMirrorsIndex ==
  (ready /\ dbOpen /\ inflight = <<>>)
  => /\ {[parent |-> db[k], raw |-> k] : k \in DOMAIN db} = Edges
     /\ EdgesLoadedFrom(db) = Edges

(***************************************************************************)
(* C19.  The engine stays usable after a storage operation has failed:     *)
(* once the initial scan is over, with 'end' or with 'error', the engine   *)
(* is ready and no getChain call is left in the buffer, so that the calls  *)
(* pending at the failure and the calls made after it are answered.  (A    *)
(* call is answered only by getChain running with _ready set, and only     *)
(* the stream's handlers set _ready and empty the buffer.)                 *)
(***************************************************************************)
C19_UsableAfterFailure == ~loading => (ready /\ queue = <<>>)

(***************************************************************************)
(* C20.  With close() as the last call of the client, no put and no delete *)
(* is handed to the store by a handler that has invoked db.close or runs   *)
(* after db.close was invoked; the deletes of the getChain calls replayed  *)
(* at the end of the load are included.                                    *)
(***************************************************************************)
C20_NoWriteAfterClose ==
  [][~dbOpen' => Len(inflight') <= Len(inflight)]_vars

\* the edges the addChain calls of this engine have supplied
AddedEdges ==
  UNION {EdgesOf(added[i].root, added[i].chain) : i \in 1 .. Len(added)}

(***************************************************************************)
(* C21.  Rehydration does not touch what addChain has put in the index     *)
(* during the load: when the read stream emits a record, every edge of the *)
(* index that an addChain call supplied is in the index afterwards, with   *)
(* the raw link of that call.                                              *)
(***************************************************************************)
C21_AddedEdgeSurvivesLoad ==
  [][(loading /\ loading' /\ stream # <<>> /\ stream' = Tail(stream))
     => (Edges \cap AddedEdges) \subseteq Edges']_vars

====
